---- MODULE Spec2Model ----
(***************************************************************************)
(* Quiz-administration backend (SaBa-Dach/QuizApp).                        *)
(*                                                                         *)
(* Two server files share one data directory layout:                       *)
(*   "server"   = src/server.js          (fixed one-hour session,          *)
(*                /session/status, /submission/check)                      *)
(*   "part_000" = src/unnamed/part_000   (caller-supplied end time,        *)
(*                open-ended answers, /teacher/mark-open-question)         *)
(* A deployment runs one of them; `variant` says which.                    *)
(*                                                                         *)
(* Every express handler is a synchronous callback that uses only          *)
(* fs.readFileSync / fs.writeFileSync, so in Spec one action is one whole  *)
(* handler.  SpecConc splits the mark-open-question handler into its read  *)
(* and its write to examine interleavings.                                 *)
(*                                                                         *)
(* Strings that the code lower-cases are sequences of one-character        *)
(* strings; the empty sequence is the empty / missing (falsy) string.      *)
(* The JSON files hold arrays (users, sessions, submissions start empty).  *)
(* A file can be unreadable (missing, malformed, access denied): readJSON  *)
(* then returns the empty object.  Files become unreadable in SpecStore    *)
(* only; in the other specifications every read succeeds.                  *)
(***************************************************************************)
EXTENDS Integers, Sequences, FiniteSets, TLC

VARIABLES
    variant,      \* which server file runs
    questions,    \* data/questions.json  ("questions" array, reference data)
    teachers,     \* data/teachers.json   ("teachers" array, provisioned out of band)
    users,        \* data/users.json      ("users" array)
    sessions,     \* data/sessions.json   ("sessions" array)
    submissions,  \* data/submissions.json ("submissions" array)
    clock,        \* the wall clock read by Date.now()
    nextId,       \* the next value uuidv4() returns
    res,          \* the request last handled and the response sent for it
    firstSignin,  \* history: the response to the first successful sign-in of each person
    handlers,     \* SpecConc: local state of mark-open-question handlers in progress
    unreadable    \* the data files that readFileSync / JSON.parse currently fail on

vars == <<variant, questions, teachers, users, sessions, submissions, clock,
          nextId, res, firstSignin, handlers, unreadable>>

----------------------------------------------------------------------------
(* Bounds of the model *)

MaxTime == 2
MaxSessions == 2
MaxSubmissions == 3
MaxHandlers == 2
MaxScore == 2      \* re-grading through null can raise a score without limit
MaxUnreadable == 1 \* data files unreadable at the same time
MaxUsers == 3      \* user records ever created (an unreadable users.json makes
                   \* every sign-in create one)

(* Program constants *)

HourMs == 3600000

----------------------------------------------------------------------------
(* The store: readJSON and writeJSON *)

DataFiles == {"teachers.json", "users.json", "sessions.json", "submissions.json",
              "questions.json"}

\* readJSON(filename): the parsed object data of the file, or {} (the object without
\* any key) when readFileSync or JSON.parse throws
readJSON(filename, data) == IF filename \in unreadable THEN <<>> ELSE data

\* writeFileSync on a readable file replaces its content; on a file that cannot be
\* read it either creates / replaces it or throws, and writeJSON swallows the error
WriteOutcomes(filename) == IF filename \in unreadable THEN {TRUE, FALSE} ELSE {TRUE}

\* the unreadable files after writeJSON(filename, ...) that succeeded (ok) or not
writeJSON(filename, ok) == IF ok THEN unreadable \ {filename} ELSE unreadable

\* data.key of what readJSON returned, with the fallback of the handlers
\* (data.key || [], data.key?.find(...), if (!data.key) data.key = []): the empty array
\* when the key is missing
ArrayOf(data, key) == IF key \in DOMAIN data THEN data[key] ELSE <<>>

\* a file becomes unreadable, or readable again with the content it had
storeFailure(f) ==
    /\ f \notin unreadable => Cardinality(unreadable) < MaxUnreadable
    /\ unreadable' = IF f \in unreadable THEN unreadable \ {f} ELSE unreadable \cup {f}
    /\ UNCHANGED <<variant, questions, teachers, users, sessions, submissions, clock,
                   nextId, res, firstSignin, handlers>>

----------------------------------------------------------------------------
(* Characters and String.prototype.toLowerCase *)

LowerChar(c) ==
    CASE c = "A" -> "a"
      [] c = "B" -> "b"
      [] c = "C" -> "c"
      [] c = "X" -> "x"
      [] OTHER -> c

\* a comparison that keeps the case
keepCase(s) == s

toLowerCase(s) == [i \in DOMAIN s |-> LowerChar(s[i])]

\* `${user.firstName} ${user.lastName}`
FullName(firstName, lastName) == firstName \o <<" ">> \o lastName

\* Array.prototype.find: the first element of seq among those at the indices hits
\* (the ones the callback accepts), as a one-element sequence, or <<>> (undefined)
find(seq, hits) ==
    IF hits = {} THEN <<>>
    ELSE <<seq[CHOOSE i \in hits : \A j \in hits : i <= j]>>

----------------------------------------------------------------------------
(* Inputs *)

NoToken == 0          \* a missing / empty token
UnknownToken == 99    \* a well-formed token no sign-in issued

\* the names people sign in with: one person in two spellings, two more people, and
\* the two ways of leaving a name out
SigninInputs ==
    { <<<<"a">>, <<"x">>>>, <<<<"A">>, <<"X">>>>, <<<<"b">>, <<"x">>>>, <<<<"c">>, <<"x">>>>,
      <<<<>>, <<"x">>>>, <<<<"a">>, <<>>>> }

\* the same people in one spelling each
PlainSigninInputs ==
    { <<<<"A">>, <<"X">>>>, <<<<"b">>, <<"x">>>>, <<<<"c">>, <<"x">>>>, <<<<>>, <<"x">>>> }

\* the tokens a caller can send: none, one never issued, and every token issued so far
TokenInputs == {NoToken, UnknownToken} \cup {users[i].id : i \in DOMAIN users}

\* the answers objects a student can send
AnswerInputs == { <<>>, [q \in {"q1", "q2"} |-> <<"a">>] }

\* every answers object over the question ids and the answer strings of the model
AnswerStrings == {<<>>, <<"a">>, <<"A">>, <<"b">>}
AllAnswerInputs == [{"q1", "q2"} -> AnswerStrings] \cup {<<>>}

\* the end times a caller supplies: missing, "0", "1", ..., and one with trailing text
EndTimeInputs ==
    {<<>>} \cup {<<d>> : d \in {"0", "2"}} \cup {<<"1", "x">>}

\* the student names a teacher can send: none, an unknown one, every registered one
StudentNameInputs ==
    {<<>>, <<"z">>} \cup {users[i].firstName \o <<" ">> \o users[i].lastName : i \in DOMAIN users}

\* the names under which answers were submitted
SubmittedNames == {submissions[i].studentName : i \in DOMAIN submissions}

\* the tokens of the teachers
TeacherTokens == {users[i].id : i \in {j \in DOMAIN users : users[j].role = "teacher"}}

\* the question texts a teacher can send
QuestionTextInputs == {"", "T", "M"}

\* JSON values of isCorrect: the two booleans and null; "undefined" is an absent key
GradeValues == {"true", "false", "null"}
Undefined == "undefined"

\* teachers.json as provisioned at different times
Rosters == { <<>>, <<[firstName |-> <<"A">>, lastName |-> <<"x">>]>> }

\* res before any request; afterwards res is the response last sent (op names the
\* operation), and a successful response also carries the request it answers (req)
NoResponse == [op |-> "none", status |-> 0]

----------------------------------------------------------------------------
(* POST /signin *)

isTeacherOf(roster, firstName, lastName) ==
    \E i \in DOMAIN roster :
        /\ toLowerCase(roster[i].firstName) = toLowerCase(firstName)
        /\ toLowerCase(roster[i].lastName) = toLowerCase(lastName)

\* a match on the exact spelling
SameNameExact(u, firstName, lastName) ==
    u.firstName = firstName /\ u.lastName = lastName

\* a comparison that lower-cases the first name only
SameNameLastExact(u, firstName, lastName) ==
    /\ toLowerCase(u.firstName) = toLowerCase(firstName)
    /\ u.lastName = lastName

SameName(u, firstName, lastName) ==
    /\ toLowerCase(u.firstName) = toLowerCase(firstName)
    /\ toLowerCase(u.lastName) = toLowerCase(lastName)

PersonKey(firstName, lastName) == <<toLowerCase(firstName), toLowerCase(lastName)>>

signin(firstName, lastName) ==
    LET req == [firstName |-> firstName, lastName |-> lastName] IN
    IF firstName = <<>> \/ lastName = <<>>
    THEN /\ res' = [op |-> "signin", status |-> 400,
                    error |-> "First name and last name are required"]
         /\ UNCHANGED <<variant, questions, teachers, users, sessions, submissions,
                        clock, nextId, firstSignin, handlers, unreadable>>
    ELSE LET teachersData == readJSON("teachers.json", [teachers |-> teachers])
             roster == IF "teachers" \in DOMAIN teachersData
                       THEN teachersData.teachers ELSE <<>>
             isTeacher == isTeacherOf(roster, firstName, lastName)
             usersData == readJSON("users.json", [users |-> users])
             userList == IF "users" \in DOMAIN usersData THEN usersData.users ELSE <<>>
             found == find(userList, {i_ \in DOMAIN userList :
                                         SameName(userList[i_], firstName, lastName)})
             user == IF found = <<>>
                     THEN [id |-> nextId, firstName |-> firstName, lastName |-> lastName,
                           role |-> IF isTeacher THEN "teacher" ELSE "student"]
                     ELSE found[1]
             reply == [op |-> "signin", status |-> 200, req |-> req,
                       token |-> user.id, role |-> user.role]
         IN /\ found = <<>> => nextId <= MaxUsers
            /\ \E ok \in (IF found = <<>> THEN WriteOutcomes("users.json") ELSE {TRUE}) :
                  /\ users' = IF found = <<>> /\ ok THEN Append(userList, user) ELSE users
                  /\ unreadable' = IF found = <<>> THEN writeJSON("users.json", ok)
                                    ELSE unreadable
            /\ nextId' = IF found = <<>> THEN nextId + 1 ELSE nextId
            /\ res' = reply
            /\ firstSignin' =
                   IF \E f \in firstSignin : f.key = PersonKey(firstName, lastName)
                   THEN firstSignin
                   ELSE firstSignin \cup
                        {[key |-> PersonKey(firstName, lastName),
                          token |-> reply.token, role |-> reply.role]}
            /\ UNCHANGED <<variant, questions, teachers, sessions, submissions,
                           clock, handlers>>

\* teachers.json is replaced out of band
rosterChange ==
    /\ \E r \in Rosters : r # teachers /\ teachers' = r
    /\ UNCHANGED <<variant, questions, users, sessions, submissions, clock,
                   nextId, res, firstSignin, handlers, unreadable>>

----------------------------------------------------------------------------
(* Date.now() and the session clock *)

\* instants the wall clock can show: the first MaxTime + 1 milliseconds, and one
\* instant more than an hour later
Instants == (0 .. MaxTime) \cup {HourMs + MaxTime}

\* the system clock moves (Date.now() is wall-clock time: it may also be set back)
clockChange ==
    /\ \E t \in Instants : t # clock /\ clock' = t
    /\ UNCHANGED <<variant, questions, teachers, users, sessions, submissions,
                   nextId, res, firstSignin, handlers, unreadable>>

IsDigit(c) == c \in {"0", "1", "2", "3", "4", "5", "6", "7", "8", "9"}

DigitVal(c) ==
    CASE c = "0" -> 0 [] c = "1" -> 1 [] c = "2" -> 2 [] c = "3" -> 3 [] c = "4" -> 4
      [] c = "5" -> 5 [] c = "6" -> 6 [] c = "7" -> 7 [] c = "8" -> 8 [] c = "9" -> 9

RECURSIVE ParseDigits(_, _, _)
ParseDigits(s, i, acc) ==
    IF i > Len(s) \/ ~IsDigit(s[i]) THEN acc
    ELSE ParseDigits(s, i + 1, 10 * acc + DigitVal(s[i]))

\* parseInt on a string that starts with a digit: the value of its longest prefix of
\* decimal digits (the inputs of the model all start with a digit)
parseInt(s) == ParseDigits(s, 1, 0)

\* a lookup that forgets the role
IsKnownToken(userList, token) ==
    find(userList, {i_ \in DOMAIN userList : userList[i_].id = token}) # <<>>

\* usersData.users.find((u) => u.id === token && u.role === "teacher")
IsTeacherToken(userList, token) ==
    find(userList, {i_ \in DOMAIN userList : userList[i_].id = token /\ userList[i_].role = "teacher"}) # <<>>

\* the status POST /session/start answers with; usersData.users.find(...) throws a
\* TypeError when readJSON returned {}, and express answers an uncaught error with 500
startSessionStatus(token, endTime) ==
    LET usersData == readJSON("users.json", [users |-> users]) IN
    IF token = NoToken THEN 400
    ELSE IF variant = "part_000" /\ endTime = <<>> THEN 400
    ELSE IF "users" \notin DOMAIN usersData THEN 500
    ELSE IF ~IsTeacherToken(usersData.users, token) THEN 403
    ELSE 200

(* POST /session/start *)
startSession(token, endTime) ==
    LET req == [token |-> token, endTime |-> endTime]
        startTime == clock
        end == IF variant = "server" THEN startTime + HourMs ELSE parseInt(endTime)
        status == startSessionStatus(token, endTime)
        error == IF token = NoToken THEN "Token required"
                 ELSE IF variant = "part_000" /\ endTime = <<>> THEN "End time required"
                 ELSE IF status = 500 THEN "TypeError"
                 ELSE "Only teacher can start quiz"
        sessionsData == readJSON("sessions.json", [sessions |-> sessions])
        sessionList == IF "sessions" \in DOMAIN sessionsData
                       THEN sessionsData.sessions ELSE <<>>
    IN /\ status = 200 => Len(sessionList) < MaxSessions
       /\ IF status = 200
          THEN /\ \E ok \in WriteOutcomes("sessions.json") :
                      /\ sessions' = IF ok
                                     THEN Append(sessionList,
                                                 [startTime |-> startTime, endTime |-> end])
                                     ELSE sessions
                      /\ unreadable' = writeJSON("sessions.json", ok)
               /\ res' = [op |-> "startSession", status |-> 200, req |-> req,
                          startTime |-> startTime, endTime |-> end]
          ELSE /\ sessions' = sessions
               /\ unreadable' = unreadable
               /\ res' = [op |-> "startSession", status |-> status, error |-> error]
       /\ UNCHANGED <<variant, questions, teachers, users, submissions, clock,
                      nextId, firstSignin, handlers>>

\* a check of the first session instead of the last
gateFirstSession(sessionList, now) ==
    IF Len(sessionList) = 0 THEN "Quiz has not started yet"
    ELSE LET latestSession == sessionList[1] IN
         IF now > latestSession.endTime THEN "Quiz ended"
         ELSE IF now < latestSession.startTime THEN "Quiz has not started yet"
         ELSE "ok"

\* the two checks of the last session in the other order
gateStartFirst(sessionList, now) ==
    IF Len(sessionList) = 0 THEN "Quiz has not started yet"
    ELSE LET latestSession == sessionList[Len(sessionList)] IN
         IF now < latestSession.startTime THEN "Quiz has not started yet"
         ELSE IF now > latestSession.endTime THEN "Quiz ended"
         ELSE "ok"

\* the check both GET /questions handlers make of the last session against Date.now()
gate(sessionList, now) ==
    IF Len(sessionList) = 0 THEN "Quiz has not started yet"
    ELSE LET latestSession == sessionList[Len(sessionList)] IN
         IF now > latestSession.endTime THEN "Quiz ended"
         ELSE IF now < latestSession.startTime THEN "Quiz has not started yet"
         ELSE "ok"

\* a status that forgets the start of the session
statusOfNoStart(sessionList, now) ==
    IF Len(sessionList) = 0 THEN [testStarted |-> FALSE, remainingTimeMs |-> 0]
    ELSE LET latestSession == sessionList[Len(sessionList)] IN
         IF now <= latestSession.endTime
         THEN [testStarted |-> TRUE, remainingTimeMs |-> latestSession.endTime - now]
         ELSE [testStarted |-> FALSE, remainingTimeMs |-> 0]

\* src/server.js lines 89-100: what GET /session/status reports for the sessions read
statusOf(sessionList, now) ==
    IF Len(sessionList) = 0 THEN [testStarted |-> FALSE, remainingTimeMs |-> 0]
    ELSE LET latestSession == sessionList[Len(sessionList)] IN
         IF now >= latestSession.startTime /\ now <= latestSession.endTime
         THEN [testStarted |-> TRUE, remainingTimeMs |-> latestSession.endTime - now]
         ELSE [testStarted |-> FALSE, remainingTimeMs |-> 0]

(* GET /session/status (src/server.js only) *)
sessionStatus ==
    LET sessionList == ArrayOf(readJSON("sessions.json", [sessions |-> sessions]),
                               "sessions")
        now == clock
        report == statusOf(sessionList, now)
    IN /\ variant = "server"
       /\ res' = [op |-> "sessionStatus", status |-> 200, now |-> now,
                  testStarted |-> report.testStarted,
                  remainingTimeMs |-> report.remainingTimeMs]
       /\ UNCHANGED <<variant, questions, teachers, users, sessions, submissions,
                      clock, nextId, firstSignin, handlers, unreadable>>

\* the question as stored
KeepAnswer(q) == q

\* ({ correctAnswer, ...rest }) => rest
StripAnswer(q) == [f \in (DOMAIN q) \ {"correctAnswer"} |-> q[f]]

(* GET /questions *)
getQuestions ==
    LET sessionList == ArrayOf(readJSON("sessions.json", [sessions |-> sessions]),
                               "sessions")
        now == clock
        outcome == gate(sessionList, now)
        qs == ArrayOf(readJSON("questions.json", [questions |-> questions]), "questions")
    IN /\ res' = IF outcome = "ok"
                 THEN [op |-> "getQuestions", status |-> 200, now |-> now,
                       remainingTimeMs |-> sessionList[Len(sessionList)].endTime - now,
                       questions |-> [i \in DOMAIN qs |-> StripAnswer(qs[i])]]
                 ELSE [op |-> "getQuestions", status |-> 403, now |-> now,
                       error |-> outcome]
       /\ UNCHANGED <<variant, questions, teachers, users, sessions, submissions,
                      clock, nextId, firstSignin, handlers, unreadable>>

----------------------------------------------------------------------------
(* questions.json and grading at submission *)

\* a quiz with one multiple-choice and one open-ended question
QuizMixed ==
    << [id |-> "q1", text |-> "M", type |-> "multiple-choice",
        choices |-> <<"a", "b">>, correctAnswer |-> <<"A">>],
       [id |-> "q2", text |-> "T", type |-> "open-ended"] >>

\* a quiz with two multiple-choice questions
QuizChoice ==
    << [id |-> "q1", text |-> "M", type |-> "multiple-choice",
        choices |-> <<"a", "b">>, correctAnswer |-> <<"b">>],
       [id |-> "q2", text |-> "N", type |-> "multiple-choice",
        choices |-> <<"a", "b">>, correctAnswer |-> <<"A">>] >>

QuestionFiles == {QuizMixed, QuizChoice}

\* a quiz with two open-ended questions
QuizOpen ==
    << [id |-> "q1", text |-> "T", type |-> "open-ended"],
       [id |-> "q2", text |-> "U", type |-> "open-ended"] >>

NoAnswer == <<"No answer">>

\* answers[id] of the request body: <<>> when the key is absent (or the empty string)
AnswerOf(answers, id) == IF id \in DOMAIN answers THEN answers[id] ELSE <<>>

RECURSIVE GradeFrom(_, _, _, _)
\* the forEach over the questions in POST /submit, from question i on, with the
\* accumulated score, totalMCQs and openEndedAnswers in acc
GradeFrom(qs, answers, i, acc) ==
    IF i > Len(qs) THEN acc
    ELSE LET q == qs[i]
             given == AnswerOf(answers, q.id)
         IN IF q.type = "multiple-choice"
            THEN GradeFrom(qs, answers, i + 1,
                     [acc EXCEPT !.totalMCQs = @ + 1,
                                 !.score = IF given # <<>> /\
                                              toLowerCase(given) = toLowerCase(q.correctAnswer)
                                           THEN @ + 1 ELSE @])
            ELSE IF q.type = "open-ended"
            THEN GradeFrom(qs, answers, i + 1,
                     [acc EXCEPT !.openEndedAnswers =
                         (q.id :> (IF given # <<>> THEN given ELSE NoAnswer)) @@ @])
            ELSE GradeFrom(qs, answers, i + 1, acc)

gradeSubmission(qs, answers) ==
    GradeFrom(qs, answers, 1, [score |-> 0, totalMCQs |-> 0, openEndedAnswers |-> <<>>])

\* new Date().toISOString(): the instant of the submission
toISOString(now) == now

\* a duplicate check that looks at the first record only
AlreadySubmittedFirstOnly(submissionsData, token) ==
    submissionsData # <<>> /\ submissionsData[1].token = token

\* submissionsData.submissions.find((sub) => sub.token === token)
alreadySubmitted(submissionsData, token) ==
    find(submissionsData, {i_ \in DOMAIN submissionsData : submissionsData[i_].token = token}) # <<>>

(* POST /submit *)
submit(token, hasAnswers, answers) ==
    LET req == [token |-> token, hasAnswers |-> hasAnswers, answers |-> answers]
        userList == ArrayOf(readJSON("users.json", [users |-> users]), "users")
        found == find(userList, {i_ \in DOMAIN userList :
                                    userList[i_].id = token /\ userList[i_].role = "student"})
        submissionList == ArrayOf(readJSON("submissions.json",
                                           [submissions |-> submissions]), "submissions")
        qs == ArrayOf(readJSON("questions.json", [questions |-> questions]), "questions")
        status == IF token = NoToken \/ ~hasAnswers THEN 400
                  ELSE IF found = <<>> THEN 403
                  ELSE IF alreadySubmitted(submissionList, token) THEN 400
                  ELSE 200
        error == IF token = NoToken \/ ~hasAnswers THEN "Token and answers required"
                 ELSE IF found = <<>> THEN "Invalid student token."
                 ELSE "You have already submitted your answers."
        graded == gradeSubmission(qs, answers)
        base == [token |-> token,
                 studentName |-> FullName(found[1].firstName, found[1].lastName),
                 answers |-> answers,
                 score |-> graded.score,
                 totalMCQs |-> graded.totalMCQs,
                 submittedAt |-> toISOString(clock)]
        record == IF variant = "server" THEN base
                  ELSE base @@ [openEndedAnswers |-> graded.openEndedAnswers,
                                openAnswerGrades |-> <<>>]
    IN /\ status = 200 => Len(submissionList) < MaxSubmissions
       /\ IF status = 200
          THEN /\ \E ok \in WriteOutcomes("submissions.json") :
                      /\ submissions' = IF ok THEN Append(submissionList, record)
                                        ELSE submissions
                      /\ unreadable' = writeJSON("submissions.json", ok)
               /\ res' = [op |-> "submit", status |-> 200, req |-> req,
                          score |-> graded.score, totalMCQs |-> graded.totalMCQs]
          ELSE /\ submissions' = submissions
               /\ unreadable' = unreadable
               /\ res' = [op |-> "submit", status |-> status, error |-> error]
       /\ UNCHANGED <<variant, questions, teachers, users, sessions, clock,
                      nextId, firstSignin, handlers>>

----------------------------------------------------------------------------
(* GET /results and GET /submission/check *)

\* JSON null in the values x || null of the results
NullValue == <<"null">>

\* x || null for a string or an array x
OrNull(x) == IF x = <<>> THEN NullValue ELSE x

\* results that grade the stored answers again instead of reading the stored score
resultsRegraded(token) ==
    LET userList == ArrayOf(readJSON("users.json", [users |-> users]), "users")
        user == find(userList, {i_ \in DOMAIN userList :
                                   userList[i_].id = token /\ userList[i_].role = "student"})
        submissionList == ArrayOf(readJSON("submissions.json",
                                           [submissions |-> submissions]), "submissions")
        submission == find(submissionList, {i_ \in DOMAIN submissionList :
                                               submissionList[i_].token = token})
        qs == ArrayOf(readJSON("questions.json", [questions |-> questions]), "questions")
    IN IF token = NoToken
       THEN [op |-> "getResults", status |-> 400, token |-> token,
             error |-> "Token required"]
       ELSE IF user = <<>>
       THEN [op |-> "getResults", status |-> 403, token |-> token,
             error |-> "Invalid student token."]
       ELSE IF submission = <<>>
       THEN [op |-> "getResults", status |-> 404, token |-> token,
             error |-> "No submission found for this student."]
       ELSE [op |-> "getResults", status |-> 200, token |-> token,
             studentName |-> submission[1].studentName,
             submittedAt |-> submission[1].submittedAt,
             score |-> gradeSubmission(qs, submission[1].answers).score,
             totalMCQs |-> submission[1].totalMCQs,
             results |-> <<>>]

\* GET /results: the response for a token
resultsOutcome(token) ==
    LET userList == ArrayOf(readJSON("users.json", [users |-> users]), "users")
        user == find(userList, {i_ \in DOMAIN userList :
                                   userList[i_].id = token /\ userList[i_].role = "student"})
        submissionList == ArrayOf(readJSON("submissions.json",
                                           [submissions |-> submissions]), "submissions")
        submission == find(submissionList, {i_ \in DOMAIN submissionList :
                                               submissionList[i_].token = token})
        qs == ArrayOf(readJSON("questions.json", [questions |-> questions]), "questions")
        detailedResults ==
            [i \in DOMAIN qs |->
                [id |-> qs[i].id,
                 text |-> qs[i].text,
                 choices |-> OrNull(IF "choices" \in DOMAIN qs[i]
                                    THEN qs[i].choices ELSE <<>>),
                 correctAnswer |-> OrNull(IF "correctAnswer" \in DOMAIN qs[i]
                                          THEN qs[i].correctAnswer ELSE <<>>),
                 studentAnswer |-> OrNull(AnswerOf(submission[1].answers, qs[i].id)),
                 type |-> qs[i].type]]
    IN IF token = NoToken
       THEN [op |-> "getResults", status |-> 400, token |-> token,
             error |-> "Token required"]
       ELSE IF user = <<>>
       THEN [op |-> "getResults", status |-> 403, token |-> token,
             error |-> "Invalid student token."]
       ELSE IF submission = <<>>
       THEN [op |-> "getResults", status |-> 404, token |-> token,
             error |-> "No submission found for this student."]
       ELSE [op |-> "getResults", status |-> 200, token |-> token,
             studentName |-> submission[1].studentName,
             submittedAt |-> submission[1].submittedAt,
             score |-> submission[1].score,
             totalMCQs |-> submission[1].totalMCQs,
             results |-> detailedResults]

(* GET /results *)
getResults(token) ==
    /\ res' = resultsOutcome(token)
    /\ UNCHANGED <<variant, questions, teachers, users, sessions, submissions,
                   clock, nextId, firstSignin, handlers, unreadable>>

\* GET /submission/check: the response for a token
checkOutcome(token) ==
    LET submissionList == ArrayOf(readJSON("submissions.json",
                                           [submissions |-> submissions]), "submissions")
        submission == find(submissionList, {i_ \in DOMAIN submissionList :
                                               submissionList[i_].token = token})
    IN IF token = NoToken
       THEN [op |-> "checkSubmitted", status |-> 400, token |-> token,
             error |-> "Token required"]
       ELSE [op |-> "checkSubmitted", status |-> 200, token |-> token,
             submitted |-> submission # <<>>]

(* GET /submission/check (src/server.js only) *)
checkSubmitted(token) ==
    /\ variant = "server"
    /\ res' = checkOutcome(token)
    /\ UNCHANGED <<variant, questions, teachers, users, sessions, submissions,
                   clock, nextId, firstSignin, handlers, unreadable>>

----------------------------------------------------------------------------
(* POST /teacher/mark-open-question (part_000 only) *)

\* JavaScript truthiness of a grade value
Truthy(v) == v = "true"

\* a score change that never takes a point back
ScoreChangeNoDecrement(currentGrade, newGrade) ==
    IF currentGrade = Undefined THEN (IF Truthy(newGrade) THEN 1 ELSE 0)
    ELSE IF currentGrade = "false" /\ newGrade = "true" THEN 1
    ELSE 0

\* a score change that ignores the stored grade
ScoreChangeNoPrevious(currentGrade, newGrade) == IF Truthy(newGrade) THEN 1 ELSE 0

\* a score change that gives nothing for the first grading
ScoreChangeNoFirst(currentGrade, newGrade) ==
    IF currentGrade = Undefined THEN 0
    ELSE IF currentGrade = "true" /\ newGrade = "false" THEN 0 - 1
    ELSE IF currentGrade = "false" /\ newGrade = "true" THEN 1
    ELSE 0

\* lines 284-295: the score change for a stored grade and a new one
ScoreChange(currentGrade, newGrade) ==
    IF currentGrade = Undefined THEN (IF Truthy(newGrade) THEN 1 ELSE 0)
    ELSE IF currentGrade = "true" /\ newGrade = "false" THEN 0 - 1
    ELSE IF currentGrade = "false" /\ newGrade = "true" THEN 1
    ELSE 0

\* no floor
NoClamp(score) == score

\* line 303: the floor of the score
ClampScore(score) == IF score < 0 THEN 0 ELSE score

\* a grading that also counts the graded question into totalMCQs
GradeOpenAnswerCountsTotal(submission, questionText, isCorrect) ==
    LET grades == IF "openAnswerGrades" \in DOMAIN submission
                  THEN submission.openAnswerGrades ELSE <<>>
        currentGrade == IF questionText \in DOMAIN grades
                        THEN grades[questionText] ELSE Undefined
        scoreChange == ScoreChange(currentGrade, isCorrect)
    IN [submission |->
            [f \in (DOMAIN submission) \cup {"openAnswerGrades"} |->
                IF f = "openAnswerGrades" THEN (questionText :> isCorrect) @@ grades
                ELSE IF f = "score" THEN ClampScore(submission.score + scoreChange)
                ELSE IF f = "totalMCQs" THEN submission.totalMCQs + 1
                ELSE submission[f]],
        previousGrade |-> currentGrade,
        scoreChange |-> scoreChange]

\* lines 276-303: the grading of one submission record
GradeOpenAnswer(submission, questionText, isCorrect) ==
    LET grades == IF "openAnswerGrades" \in DOMAIN submission
                  THEN submission.openAnswerGrades ELSE <<>>
        currentGrade == IF questionText \in DOMAIN grades
                        THEN grades[questionText] ELSE Undefined
        scoreChange == ScoreChange(currentGrade, isCorrect)
    IN [submission |->
            [f \in (DOMAIN submission) \cup {"openAnswerGrades"} |->
                IF f = "openAnswerGrades" THEN (questionText :> isCorrect) @@ grades
                ELSE IF f = "score" THEN ClampScore(submission.score + scoreChange)
                ELSE submission[f]],
        previousGrade |-> currentGrade,
        scoreChange |-> scoreChange]

\* a handler that grades and writes before it looks the question up
markOutcomeGradeFirst(submissionsData, token, studentName, questionText, isCorrect) ==
    LET req == [token |-> token, studentName |-> studentName,
                questionText |-> questionText, isCorrect |-> isCorrect]
        hits == {i \in DOMAIN submissionsData :
                     submissionsData[i].studentName = studentName}
        userList == ArrayOf(readJSON("users.json", [users |-> users]), "users")
        qs == ArrayOf(readJSON("questions.json", [questions |-> questions]), "questions")
        openQuestions == {i \in DOMAIN qs : qs[i].type = "open-ended"}
        fail(status, error) ==
            [data |-> submissionsData, written |-> FALSE,
             res |-> [op |-> "markOpenAnswer", status |-> status, error |-> error]]
    IN IF token = NoToken \/ studentName = <<>> \/ questionText = "" \/ isCorrect = Undefined
       THEN fail(400, "Token, student name, question text, and correctness status are required")
       ELSE IF ~IsTeacherToken(userList, token)
       THEN fail(403, "Invalid teacher token.")
       ELSE IF hits = {}
       THEN fail(404, "No submission found for this student.")
       ELSE LET k == CHOOSE i \in hits : \A j \in hits : i <= j
                g == GradeOpenAnswer(submissionsData[k], questionText, isCorrect)
            IN IF ~\E i \in openQuestions : qs[i].text = questionText
               THEN [data |-> [submissionsData EXCEPT ![k] = g.submission],
                     written |-> TRUE,
                     res |-> [op |-> "markOpenAnswer", status |-> 404,
                              error |-> "Question not found.",
                              updatedScore |-> g.submission.score]]
               ELSE [data |-> [submissionsData EXCEPT ![k] = g.submission],
                     written |-> TRUE,
                     res |-> [op |-> "markOpenAnswer", status |-> 200, req |-> req,
                              updatedScore |-> g.submission.score,
                              previousGrade |-> g.previousGrade,
                              newGrade |-> isCorrect,
                              scoreChange |-> g.scoreChange]]

\* lines 257-313 on the submissions array the handler has read: the status, the array
\* it writes back (unchanged when it answers an error) and the response
markOutcome(submissionsData, token, studentName, questionText, isCorrect) ==
    LET req == [token |-> token, studentName |-> studentName,
                questionText |-> questionText, isCorrect |-> isCorrect]
        hits == {i \in DOMAIN submissionsData :
                     submissionsData[i].studentName = studentName}
        userList == ArrayOf(readJSON("users.json", [users |-> users]), "users")
        qs == ArrayOf(readJSON("questions.json", [questions |-> questions]), "questions")
        openQuestions == {i \in DOMAIN qs : qs[i].type = "open-ended"}
        fail(status, error) ==
            [data |-> submissionsData, written |-> FALSE,
             res |-> [op |-> "markOpenAnswer", status |-> status, error |-> error]]
    IN IF token = NoToken \/ studentName = <<>> \/ questionText = "" \/ isCorrect = Undefined
       THEN fail(400, "Token, student name, question text, and correctness status are required")
       ELSE IF ~IsTeacherToken(userList, token)
       THEN fail(403, "Invalid teacher token.")
       ELSE IF hits = {}
       THEN fail(404, "No submission found for this student.")
       ELSE IF ~\E i \in openQuestions : qs[i].text = questionText
       THEN fail(404, "Question not found.")
       ELSE LET k == CHOOSE i \in hits : \A j \in hits : i <= j
                g == GradeOpenAnswer(submissionsData[k], questionText, isCorrect)
            IN [data |-> [submissionsData EXCEPT ![k] = g.submission],
                written |-> TRUE,
                res |-> [op |-> "markOpenAnswer", status |-> 200, req |-> req,
                         updatedScore |-> g.submission.score,
                         previousGrade |-> g.previousGrade,
                         newGrade |-> isCorrect,
                         scoreChange |-> g.scoreChange]]

\* the whole handler, in one turn of the event loop
markOpenAnswer(token, studentName, questionText, isCorrect) ==
    LET submissionList == ArrayOf(readJSON("submissions.json",
                                           [submissions |-> submissions]), "submissions")
        out == markOutcome(submissionList, token, studentName, questionText, isCorrect)
    IN /\ variant = "part_000"
       /\ out.written => out.res.updatedScore <= MaxScore
       /\ submissions' = IF out.written THEN out.data ELSE submissions
       /\ res' = out.res
       /\ UNCHANGED <<variant, questions, teachers, users, sessions, clock,
                      nextId, firstSignin, handlers, unreadable>>

----------------------------------------------------------------------------
(* The mark-open-question handler in two steps: from its start to readJSON of
   submissions.json (line 266), and from there to writeJSON and the response *)

\* a handler that could start while another is between its read and its write
Preemptive(running) == TRUE

\* express calls the handler from the event loop and the handler returns without
\* awaiting anything (readFileSync, writeFileSync): a handler starts only when no
\* other handler is in progress
RunToCompletion(running) == running = <<>>

\* lines 257-266: validation, authorization, and the read of submissions.json
markRead(token, studentName, questionText, isCorrect) ==
    /\ variant = "part_000"
    /\ RunToCompletion(handlers)
    /\ Len(handlers) < MaxHandlers
    /\ token # NoToken /\ studentName # <<>> /\ questionText # "" /\ isCorrect # Undefined
    /\ IsTeacherToken(ArrayOf(readJSON("users.json", [users |-> users]), "users"), token)
    /\ handlers' = Append(handlers,
           [req |-> [token |-> token, studentName |-> studentName,
                     questionText |-> questionText, isCorrect |-> isCorrect],
            submissionsData |-> ArrayOf(readJSON("submissions.json",
                                                 [submissions |-> submissions]),
                                        "submissions")])
    /\ UNCHANGED <<variant, questions, teachers, users, sessions, submissions, clock,
                   nextId, res, firstSignin, unreadable>>

\* lines 267-313 of the i-th handler in progress, on the array it has read
markWrite(i) ==
    LET h == handlers[i]
        out == markOutcome(h.submissionsData, h.req.token, h.req.studentName,
                           h.req.questionText, h.req.isCorrect)
    IN /\ out.written => out.res.updatedScore <= MaxScore
       /\ submissions' = IF out.written THEN out.data ELSE submissions
       /\ res' = out.res
       /\ handlers' = SubSeq(handlers, 1, i - 1) \o SubSeq(handlers, i + 1, Len(handlers))
       /\ UNCHANGED <<variant, questions, teachers, users, sessions, clock,
                      nextId, firstSignin, unreadable>>

----------------------------------------------------------------------------

Init ==
    /\ variant \in {"server", "part_000"}
    /\ questions \in QuestionFiles
    /\ teachers \in Rosters
    /\ users = <<>>
    /\ sessions = <<>>
    /\ submissions = <<>>
    /\ clock = 0
    /\ nextId = 1
    /\ res = NoResponse
    /\ firstSignin = {}
    /\ handlers = <<>>
    /\ unreadable = {}

(* The whole service for a teacher and a student, at one instant of the clock *)
Next ==
    \/ \E n \in {<<<<"A">>, <<"X">>>>, <<<<"b">>, <<"x">>>>, <<<<>>, <<"x">>>>} :
          signin(n[1], n[2])
    \/ \E t \in TokenInputs, e \in {<<>>, <<"2">>} : startSession(t, e)
    \/ \E t \in TokenInputs, h \in BOOLEAN, a \in AnswerInputs : submit(t, h, a)
    \/ \E t \in TokenInputs, n \in StudentNameInputs, q \in QuestionTextInputs,
          v \in GradeValues \cup {Undefined} : markOpenAnswer(t, n, q, v)

Spec == Init /\ [][Next]_vars

(* The grading core: a teacher and two students, submission and open-answer grading *)
NextGrade ==
    \/ \E n \in PlainSigninInputs : signin(n[1], n[2])
    \/ \E t \in TokenInputs, h \in BOOLEAN : submit(t, h, <<>>)
    \/ \E t \in TokenInputs, n \in SubmittedNames, v \in GradeValues :
          markOpenAnswer(t, n, "T", v)
    \/ \E t \in TeacherTokens, n \in StudentNameInputs, q \in QuestionTextInputs,
          v \in {"true", Undefined} : markOpenAnswer(t, n, q, v)

SpecGrade == Init /\ [][NextGrade]_vars

(* The session clock: sessions started and questions fetched while the clock moves *)
NextClock ==
    \/ \E n \in {<<<<"A">>, <<"X">>>>, <<<<"b">>, <<"x">>>>} : signin(n[1], n[2])
    \/ clockChange
    \/ \E t \in TokenInputs, e \in EndTimeInputs : startSession(t, e)
    \/ getQuestions

SpecClock == Init /\ [][NextClock]_vars

(* Identity: every spelling of the names, a changing roster, other operations between *)
NextIdentity ==
    \/ \E n \in SigninInputs : signin(n[1], n[2])
    \/ rosterChange
    \/ \E t \in TokenInputs : startSession(t, <<"2">>)
    \/ \E t \in TokenInputs : submit(t, TRUE, <<>>)

SpecIdentity == Init /\ [][NextIdentity]_vars

(* Submission: every answers object *)
NextSubmit ==
    \/ \E n \in {<<<<"b">>, <<"x">>>>, <<<<"c">>, <<"x">>>>} : signin(n[1], n[2])
    \/ \E t \in TokenInputs, a \in AllAnswerInputs : submit(t, TRUE, a)
    \/ \E t \in TokenInputs : submit(t, FALSE, <<>>)

SpecSubmit == Init /\ [][NextSubmit]_vars

(* Grading requests that arrive together: each handler in its two steps *)
NextConc ==
    \/ /\ RunToCompletion(handlers)
       /\ \E n \in {<<<<"A">>, <<"X">>>>, <<<<"b">>, <<"x">>>>} : signin(n[1], n[2])
    \/ /\ RunToCompletion(handlers)
       /\ \E t \in TokenInputs : submit(t, TRUE, [q \in {"q1", "q2"} |-> <<"a">>])
    \/ \E t \in TokenInputs, n \in SubmittedNames \cup {<<"z">>}, v \in GradeValues :
          markRead(t, n, "T", v)
    \/ \E i \in DOMAIN handlers : markWrite(i)

SpecConc == Init /\ [][NextConc]_vars

(* Sessions: a teacher starts sessions while the clock moves; status and questions *)
InitSession == Init /\ questions = QuizMixed /\ teachers # <<>>

NextSession ==
    \/ signin(<<"A">>, <<"X">>)
    \/ clockChange
    \/ \E t \in TokenInputs, e \in EndTimeInputs : startSession(t, e)
    \/ getQuestions
    \/ sessionStatus

SpecSession == InitSession /\ [][NextSession]_vars

(* Results: submissions, their grading, and the two queries about them *)
NextResults ==
    \/ \E n \in {<<<<"A">>, <<"X">>>>, <<<<"b">>, <<"x">>>>} : signin(n[1], n[2])
    \/ \E t \in TokenInputs, a \in AnswerInputs : submit(t, TRUE, a)
    \/ \E t \in TeacherTokens, n \in SubmittedNames, v \in {"true", "false"} :
          markOpenAnswer(t, n, "T", v)
    \/ \E t \in TokenInputs : getResults(t)
    \/ \E t \in TokenInputs : checkSubmitted(t)

SpecResults == Init /\ [][NextResults]_vars

(* Grading with boolean verdicts only, one request at a time *)
InitBool ==
    /\ variant = "part_000"
    /\ questions \in {QuizMixed, QuizOpen}
    /\ teachers \in Rosters \ {<<>>}
    /\ users = <<>>
    /\ sessions = <<>>
    /\ submissions = <<>>
    /\ clock = 0
    /\ nextId = 1
    /\ res = NoResponse
    /\ firstSignin = {}
    /\ handlers = <<>>
    /\ unreadable = {}

NextBool ==
    \/ \E n \in PlainSigninInputs \ {<<<<>>, <<"x">>>>} : signin(n[1], n[2])
    \/ \E t \in TokenInputs, a \in AnswerInputs : submit(t, TRUE, a)
    \/ \E t \in TeacherTokens, n \in SubmittedNames, q \in {"T", "U"},
          v \in {"true", "false"} : markOpenAnswer(t, n, q, v)

SpecBool == InitBool /\ [][NextBool]_vars

(* The store: every operation while data files become unreadable and readable again *)
NextStore ==
    \/ \E n \in {<<<<"A">>, <<"X">>>>, <<<<"b">>, <<"x">>>>} : signin(n[1], n[2])
    \/ \E f \in DataFiles : storeFailure(f)
    \/ \E t \in TokenInputs : startSession(t, <<"2">>)
    \/ \E t \in TokenInputs : submit(t, TRUE, <<>>)
    \/ getQuestions
    \/ \E t \in TokenInputs, n \in SubmittedNames : markOpenAnswer(t, n, "T", "true")

\* a deployment with the mixed quiz and a teacher on the roster
InitStore == Init /\ questions = QuizMixed /\ teachers # <<>>

SpecStore == InitStore /\ [][NextStore]_vars

----------------------------------------------------------------------------
(* Properties *)

DuplicateError == "You have already submitted your answers."

\* the role of the user record whose id is token ("none" when there is no such record)
RoleOfToken(token) ==
    IF \E i \in DOMAIN users : users[i].id = token
    THEN users[CHOOSE i \in DOMAIN users : users[i].id = token].role
    ELSE "none"

\* the step is a successful run of the mark-open-question handler for the request
\* echoed in res'
IsMarkStep ==
    /\ res'.op = "markOpenAnswer"
    /\ res'.status = 200
    /\ markOpenAnswer(res'.req.token, res'.req.studentName, res'.req.questionText,
                      res'.req.isCorrect)

\* the grade stored for questionText in the first submission named studentName
StoredGrade(submissionsData, studentName, questionText) ==
    LET hits == {i \in DOMAIN submissionsData :
                     submissionsData[i].studentName = studentName}
        sub == submissionsData[CHOOSE i \in hits : \A j \in hits : i <= j]
    IN IF questionText \in DOMAIN sub.openAnswerGrades
       THEN sub.openAnswerGrades[questionText] ELSE Undefined

StoredScore(submissionsData, studentName) ==
    LET hits == {i \in DOMAIN submissionsData :
                     submissionsData[i].studentName = studentName}
    IN submissionsData[CHOOSE i \in hits : \A j \in hits : i <= j].score

(* C1: the submissions collection never holds two records with the same token, and a
   submit with answers for a token that already has a record is answered 400
   "already submitted" whatever the answers, leaving the collection unchanged. *)
C1_OneSubmissionPerToken ==
    /\ [](\A i, j \in DOMAIN submissions :
              submissions[i].token = submissions[j].token => i = j)
    /\ [][\A t \in TokenInputs, a \in AnswerInputs :
              ((\E i \in DOMAIN submissions : submissions[i].token = t) /\ submit(t, TRUE, a))
              => /\ res'.status = 400
                 /\ res'.error = DuplicateError
                 /\ submissions' = submissions]_vars

\* both students have submitted and a further submit was refused as a duplicate
C1_Witness ==
    /\ Len(submissions) = 2
    /\ res.op = "submit"
    /\ res.status = 400
    /\ res.error = DuplicateError

(* C2: a submission record is created only while the session gate is open (a last
   session exists and startTime <= now <= endTime). *)
C2_SubmitGatedBySession ==
    [][Len(submissions') > Len(submissions) => gate(sessions, clock) = "ok"]_vars

(* C3 as claimed: getQuestions answers NotStarted whenever no session exists or
   now < startTime, Ended whenever now > endTime, and otherwise succeeds with
   remainingTimeMs = endTime - now. *)
C3_GateAsClaimed ==
    res.op = "getQuestions" =>
        LET none == sessions = <<>>
            last == sessions[Len(sessions)]
        IN /\ (none \/ res.now < last.startTime)
                  => (res.status = 403 /\ res.error = "Quiz has not started yet")
           /\ (~none /\ res.now > last.endTime)
                  => (res.status = 403 /\ res.error = "Quiz ended")
           /\ (~none /\ res.now >= last.startTime /\ res.now <= last.endTime)
                  => (res.status = 200 /\ res.remainingTimeMs = last.endTime - res.now)

(* C3 amended: getQuestions answers Ended whenever a session exists and now > endTime
   (also when now < startTime), NotStarted when no session exists or now < startTime
   and now <= endTime, and otherwise succeeds with remainingTimeMs = endTime - now. *)
C3_GateEndedFirst ==
    res.op = "getQuestions" =>
        LET none == sessions = <<>>
            last == sessions[Len(sessions)]
        IN /\ (~none /\ res.now > last.endTime)
                  => (res.status = 403 /\ res.error = "Quiz ended")
           /\ (none \/ (res.now < last.startTime /\ res.now <= last.endTime))
                  => (res.status = 403 /\ res.error = "Quiz has not started yet")
           /\ (~none /\ res.now >= last.startTime /\ res.now <= last.endTime)
                  => (res.status = 200 /\ res.remainingTimeMs = last.endTime - res.now)

\* questions were asked for after the end and before the start of the last session
C3_Witness ==
    /\ res.op = "getQuestions"
    /\ sessions # <<>>
    /\ res.now > sessions[Len(sessions)].endTime
    /\ res.now < sessions[Len(sessions)].startTime
    /\ res.error = "Quiz ended"

(* C4: every successful sign-in returns the token and the role that the first sign-in
   under the same names (compared case-insensitively) returned, whatever happened in
   between, and a user record is written only by a person's first sign-in. *)
C4_SigninIdempotent ==
    /\ []((res.op = "signin" /\ res.status = 200) =>
            \E f \in firstSignin :
                /\ f.key = PersonKey(res.req.firstName, res.req.lastName)
                /\ f.token = res.token
                /\ f.role = res.role)
    /\ [][users' # users =>
            /\ Len(users') = Len(users) + 1
            /\ SubSeq(users', 1, Len(users)) = users
            /\ ~\E f \in firstSignin :
                   f.key = PersonKey(users'[Len(users')].firstName,
                                     users'[Len(users')].lastName)]_vars

\* a later sign-in in another spelling, after the roster changed, got the first answer
C4_Witness ==
    /\ res.op = "signin"
    /\ res.status = 200
    /\ \E i \in DOMAIN users :
           /\ users[i].id = res.token
           /\ users[i].firstName # res.req.firstName
           /\ users[i].lastName # res.req.lastName
    /\ res.role = "student"
    /\ isTeacherOf(teachers, res.req.firstName, res.req.lastName)

\* the grade transition table of the specification
C5_Table(previous, new) ==
    CASE previous = Undefined /\ new = "true" -> 1
      [] previous = Undefined /\ new = "false" -> 0
      [] previous = "true" /\ new = "false" -> 0 - 1
      [] previous = "false" /\ new = "true" -> 1
      [] previous = "true" /\ new = "true" -> 0
      [] previous = "false" /\ new = "false" -> 0

(* C5: a successful markOpenAnswer returns as previousGrade the grade stored before
   the call, stores isCorrect as the new grade of that question text, and for
   previousGrade in {ungraded, true, false} and isCorrect in {true, false} returns
   the scoreChange of the grade transition table. *)
C5_GradeTransition ==
    [][IsMarkStep =>
          LET name == res'.req.studentName
              text == res'.req.questionText
          IN /\ res'.previousGrade = StoredGrade(submissions, name, text)
             /\ res'.newGrade = res'.req.isCorrect
             /\ StoredGrade(submissions', name, text) = res'.req.isCorrect
             /\ (res'.previousGrade \in {Undefined, "true", "false"}
                 /\ res'.newGrade \in {"true", "false"})
                    => res'.scoreChange = C5_Table(res'.previousGrade, res'.newGrade)]_vars

\* an answer graded correct was re-graded incorrect
C5_Witness ==
    /\ res.op = "markOpenAnswer"
    /\ res.status = 200
    /\ res.previousGrade = "true"
    /\ res.newGrade = "false"
    /\ res.scoreChange = 0 - 1

(* C6: when a successful markOpenAnswer is followed by another successful one for the
   same student name, question text and isCorrect, the second returns scoreChange 0
   and the first call's updatedScore, and leaves the submissions as the first left
   them. *)
C6_RegradeIdempotent ==
    [][(/\ res.op = "markOpenAnswer"
        /\ res.status = 200
        /\ IsMarkStep
        /\ res'.req.studentName = res.req.studentName
        /\ res'.req.questionText = res.req.questionText
        /\ res'.req.isCorrect = res.req.isCorrect)
       => /\ res'.scoreChange = 0
          /\ res'.updatedScore = res.updatedScore
          /\ submissions' = submissions]_vars

\* the verdict just given is the one that was already stored
C6_Witness ==
    /\ res.op = "markOpenAnswer"
    /\ res.status = 200
    /\ res.previousGrade = res.req.isCorrect
    /\ res.scoreChange = 0
    /\ res.updatedScore = StoredScore(submissions, res.req.studentName)

(* C7: every stored submission's score is an integer >= 0. *)
C7_ScoreFloor ==
    \A i \in DOMAIN submissions : submissions[i].score \in Nat

\* a re-grade took a point away and left the score at the floor
C7_Witness ==
    /\ res.op = "markOpenAnswer"
    /\ res.status = 200
    /\ res.scoreChange = 0 - 1
    /\ res.updatedScore = 0
    /\ StoredScore(submissions, res.req.studentName) = 0

(* C8: a session is appended only by a startSession, and a submission is changed by a
   markOpenAnswer only, when the token sent is the id of a user record with role
   teacher; with the token of a student or an unknown token (and the other fields
   present) both answer 403, and a 403 leaves sessions and submissions unchanged. *)
C8_TeacherOnly ==
    /\ [][/\ sessions' # sessions =>
               (res'.op = "startSession" /\ res'.status = 200
                /\ RoleOfToken(res'.req.token) = "teacher")
          /\ (res'.op = "markOpenAnswer" /\ submissions' # submissions) =>
               (res'.status = 200 /\ RoleOfToken(res'.req.token) = "teacher")
          /\ (res' # res /\ res'.op \in {"startSession", "markOpenAnswer"}
              /\ res'.status = 403) =>
               (sessions' = sessions /\ submissions' = submissions)]_vars
    /\ [](\A t \in TokenInputs \ {NoToken} :
            RoleOfToken(t) # "teacher" =>
              /\ startSessionStatus(t, <<"2">>) = 403
              /\ \A n \in StudentNameInputs \ {<<>>}, q \in QuestionTextInputs \ {""},
                    v \in GradeValues :
                    LET out == markOutcome(submissions, t, n, q, v)
                    IN out.res.status = 403 /\ ~out.written /\ out.data = submissions)

\* a teacher exists, answers were submitted, and a grading request was refused 403
C8_Witness ==
    /\ res.op = "markOpenAnswer"
    /\ res.status = 403
    /\ submissions # <<>>
    /\ TeacherTokens # {}
    /\ sessions # <<>>

\* equality of two strings up to the case of their letters
C9_SameIgnoringCase(s, t) ==
    /\ Len(s) = Len(t)
    /\ \A i \in DOMAIN s :
           \/ s[i] = t[i]
           \/ {s[i], t[i]} = {"a", "A"}
           \/ {s[i], t[i]} = {"b", "B"}

(* C9: a successful submit returns and stores totalMCQs = the number of
   multiple-choice questions and score = the number of multiple-choice questions
   whose submitted answer exists and equals correctAnswer up to case, so
   0 <= score <= totalMCQs. *)
C9_GradeIsCount ==
    (res.op = "submit" /\ res.status = 200) =>
        LET mcqs == {i \in DOMAIN questions : questions[i].type = "multiple-choice"}
            right == {i \in mcqs :
                         /\ questions[i].id \in DOMAIN res.req.answers
                         /\ res.req.answers[questions[i].id] # <<>>
                         /\ C9_SameIgnoringCase(res.req.answers[questions[i].id],
                                                questions[i].correctAnswer)}
        IN /\ res.totalMCQs = Cardinality(mcqs)
           /\ res.score = Cardinality(right)
           /\ res.score >= 0
           /\ res.score <= res.totalMCQs
           /\ \E i \in DOMAIN submissions :
                  /\ submissions[i].token = res.req.token
                  /\ submissions[i].score = res.score
                  /\ submissions[i].totalMCQs = res.totalMCQs

\* an answer in another case than the answer key was counted, a wrong one was not
C9_Witness ==
    /\ res.op = "submit"
    /\ res.status = 200
    /\ questions = QuizChoice
    /\ res.req.answers = [q \in {"q1", "q2"} |-> <<"a">>]
    /\ res.score = 1
    /\ res.totalMCQs = 2

(* C10 as claimed: two concurrent markOpenAnswer calls can both have read the
   submissions before either writes: while one call is between its read and its
   write, another call against the same submission can do its read. *)
C10_BothCanRead ==
    \A i \in DOMAIN handlers :
        ENABLED (\E t \in TeacherTokens, v \in GradeValues :
                    markRead(t, handlers[i].req.studentName, "T", v))

(* C10 amended: no update is lost: at most one markOpenAnswer call is between its
   read and its write, the array it holds is the stored one, and every write leaves
   the submissions that the whole handler run on the stored array leaves, so two calls
   against one submission always give the result of running one after the other. *)
C10_NoLostUpdate ==
    /\ [](/\ Len(handlers) <= 1
          /\ \A i \in DOMAIN handlers : handlers[i].submissionsData = submissions)
    /\ [][\A i \in DOMAIN handlers :
             markWrite(i) =>
                 submissions' = markOutcome(submissions, handlers[i].req.token,
                                            handlers[i].req.studentName,
                                            handlers[i].req.questionText,
                                            handlers[i].req.isCorrect).data]_vars

\* a second call against the same submission has completed on top of the first
C10_Witness ==
    /\ handlers = <<>>
    /\ res.op = "markOpenAnswer"
    /\ res.status = 200
    /\ res.previousGrade = "true"
    /\ res.newGrade = "false"
    /\ res.updatedScore = StoredScore(submissions, res.req.studentName)
    /\ res.updatedScore = 1

(* C11: every session record appended by startSession has endTime > startTime, in the
   one-hour variant and in the variant with a caller-supplied end timestamp. *)
C11_EndAfterStart ==
    \A i \in DOMAIN sessions : sessions[i].endTime > sessions[i].startTime

(* C12: a failed read of a collection is not propagated and the operation answers as
   if the collection held no records: with users.json unreadable, startSession and
   submit (with every field present) answer 403, markOpenAnswer answers 403 and a
   sign-in answers 200 with a new token; with sessions.json unreadable getQuestions
   answers 403 "not started"; with submissions.json unreadable markOpenAnswer
   answers 404. *)
C12_SilentDegradation ==
    [][/\ "users.json" \in unreadable =>
            /\ \A t \in TokenInputs \ {NoToken} :
                   /\ startSession(t, <<"2">>) => res'.status = 403
                   /\ submit(t, TRUE, <<>>) => res'.status = 403
                   /\ \A n \in SubmittedNames :
                          markOpenAnswer(t, n, "T", "true") => res'.status = 403
            /\ \A n \in {<<<<"A">>, <<"X">>>>, <<<<"b">>, <<"x">>>>} :
                   signin(n[1], n[2]) => (res'.status = 200 /\ res'.token = nextId)
       /\ ("sessions.json" \in unreadable /\ getQuestions) =>
            (res'.status = 403 /\ res'.error = "Quiz has not started yet")
       /\ ("submissions.json" \in unreadable /\ "users.json" \notin unreadable) =>
            \A t \in TeacherTokens, n \in SubmittedNames :
                markOpenAnswer(t, n, "T", "true") => res'.status = 404]_vars

(* C13: a stored submission keeps its token, studentName, answers, openEndedAnswers,
   totalMCQs and submittedAt for ever; its score and openAnswerGrades change only in
   a successful markOpenAnswer, which changes at most one submission record and
   leaves the other submissions, the users and the sessions unchanged. *)
C13_SubmissionFrame ==
    [][/\ Len(submissions') >= Len(submissions)
       /\ \A i \in DOMAIN submissions :
              \A f \in (DOMAIN submissions[i]) \ {"score", "openAnswerGrades"} :
                  submissions'[i][f] = submissions[i][f]
       /\ LET changed == {i \in DOMAIN submissions : submissions'[i] # submissions[i]}
          IN changed # {} =>
                /\ res'.op = "markOpenAnswer"
                /\ res'.status = 200
                /\ Cardinality(changed) = 1
                /\ Len(submissions') = Len(submissions)
                /\ users' = users
                /\ sessions' = sessions
       /\ (res' # res /\ res'.op = "markOpenAnswer") =>
                /\ Cardinality({i \in DOMAIN submissions :
                                    submissions'[i] # submissions[i]}) <= 1
                /\ Len(submissions') = Len(submissions)
                /\ users' = users
                /\ sessions' = sessions]_vars

\* of two stored submissions one was graded and the other is as it was created
C13_Witness ==
    /\ res.op = "markOpenAnswer"
    /\ res.status = 200
    /\ res.scoreChange = 1
    /\ Len(submissions) = 2
    /\ Len(users) = 3
    /\ \E i, j \in DOMAIN submissions :
           /\ submissions[i].openAnswerGrades # <<>>
           /\ submissions[j].openAnswerGrades = <<>>

(* C14: in every successful getQuestions response no returned question carries a
   correctAnswer field, and every other field of each stored question is returned
   unchanged, in the stored order. *)
C14_NoAnswerKey ==
    (res.op = "getQuestions" /\ res.status = 200) =>
        /\ Len(res.questions) = Len(questions)
        /\ \A i \in DOMAIN res.questions :
               /\ "correctAnswer" \notin DOMAIN res.questions[i]
               /\ DOMAIN res.questions[i] = (DOMAIN questions[i]) \ {"correctAnswer"}
               /\ \A f \in DOMAIN res.questions[i] : res.questions[i][f] = questions[i][f]

\* the questions of the mixed quiz were returned while the session was open
C14_Witness ==
    /\ res.op = "getQuestions"
    /\ res.status = 200
    /\ questions = QuizMixed
    /\ \E i \in DOMAIN questions : "correctAnswer" \in DOMAIN questions[i]
    /\ Len(res.questions) = 2
    /\ res.questions[2].text = "T"

\* the number of question texts graded true in a submission
C15_GradedTrue(submission) ==
    Cardinality({q \in DOMAIN submission.openAnswerGrades :
                     submission.openAnswerGrades[q] = "true"})

(* C15: with requests handled one at a time and isCorrect always true or false,
   every stored submission has score = the multiple-choice score computed when it
   was submitted + the number of question texts graded true; so a markOpenAnswer
   returns updatedScore = that multiple-choice score + that number, and the net
   change after any sequence of verdicts on one question is +1 if the last verdict is
   true and 0 otherwise. *)
C15_ScoreIsBasePlusTrue ==
    /\ \A i \in DOMAIN submissions :
           submissions[i].score =
               gradeSubmission(questions, submissions[i].answers).score
               + C15_GradedTrue(submissions[i])
    /\ (res.op = "markOpenAnswer" /\ res.status = 200) =>
           \E i \in DOMAIN submissions :
               /\ submissions[i].studentName = res.req.studentName
               /\ res.updatedScore =
                      gradeSubmission(questions, submissions[i].answers).score
                      + C15_GradedTrue(submissions[i])
               /\ submissions[i].openAnswerGrades[res.req.questionText]
                      = res.req.isCorrect

\* an answer graded correct was re-graded incorrect, which took the point back and
\* left the multiple-choice score
C15_Witness ==
    /\ res.op = "markOpenAnswer"
    /\ res.status = 200
    /\ res.previousGrade = "true"
    /\ res.req.isCorrect = "false"
    /\ res.scoreChange = 0 - 1
    /\ res.updatedScore = 1
    /\ \E i \in DOMAIN submissions :
           /\ submissions[i].studentName = res.req.studentName
           /\ gradeSubmission(questions, submissions[i].answers).score = 1

(* C16: with requests handled one at a time the floor of the score never acts: in
   every successful markOpenAnswer the stored score plus the scoreChange is >= 0 and
   updatedScore is the stored score plus the returned scoreChange. *)
C16_ClampUnreachable ==
    [][IsMarkStep =>
          LET before == StoredScore(submissions, res'.req.studentName)
          IN /\ before + res'.scoreChange >= 0
             /\ res'.updatedScore = before + res'.scoreChange]_vars

(* C17: the sessions are append-only and only the last record counts: a successful
   startSession appends exactly one record with startTime = now and leaves the
   earlier records as they were, nothing else changes the sessions, and what
   sessionStatus and getQuestions answer is what they would answer if the last
   record were the only one. *)
C17_LastSessionRules ==
    /\ [][/\ sessions' # sessions =>
               /\ res'.op = "startSession"
               /\ res'.status = 200
               /\ Len(sessions') = Len(sessions) + 1
               /\ SubSeq(sessions', 1, Len(sessions)) = sessions
               /\ sessions'[Len(sessions')].startTime = clock
          /\ \A t \in TokenInputs, e \in EndTimeInputs :
                 (startSession(t, e) /\ startSessionStatus(t, e) = 200) =>
                     Len(sessions') = Len(sessions) + 1]_vars
    /\ []((res.op = "getQuestions" /\ sessions # <<>>) =>
             LET outcome == gate(<<sessions[Len(sessions)]>>, res.now)
             IN IF outcome = "ok"
                THEN /\ res.status = 200
                     /\ res.remainingTimeMs = sessions[Len(sessions)].endTime - res.now
                ELSE res.status = 403 /\ res.error = outcome)
    /\ []((res.op = "sessionStatus" /\ sessions # <<>>) =>
             LET report == statusOf(<<sessions[Len(sessions)]>>, res.now)
             IN /\ res.testStarted = report.testStarted
                /\ res.remainingTimeMs = report.remainingTimeMs)

\* a second session with an earlier end superseded one whose window is still running:
\* the questions are refused as ended
C17_Witness ==
    /\ Len(sessions) = 2
    /\ res.op = "getQuestions"
    /\ res.status = 403
    /\ res.error = "Quiz ended"
    /\ sessions[1].startTime <= res.now
    /\ res.now <= sessions[1].endTime
    /\ sessions[2].endTime < res.now

(* C18: a request answered with an error (400, 403, 404) writes nothing: users,
   sessions and submissions are after it what they were before; a successful request
   changes at most one of the three collections.  So a markOpenAnswer for an unknown
   student name, or for a text that is not the text of an open-ended question, leaves
   every score and every openAnswerGrades as it was. *)
C18_ErrorsWriteNothing ==
    [][/\ res'.status \in {400, 403, 404} =>
            (users' = users /\ sessions' = sessions /\ submissions' = submissions)
       /\ Cardinality({c \in {"users", "sessions", "submissions"} :
                           \/ c = "users" /\ users' # users
                           \/ c = "sessions" /\ sessions' # sessions
                           \/ c = "submissions" /\ submissions' # submissions}) <= 1
       /\ \A t \in TeacherTokens, v \in GradeValues :
              /\ markOpenAnswer(t, <<"z">>, "T", v) =>
                     (res'.status = 404 /\ submissions' = submissions)
              /\ \A n \in SubmittedNames :
                     markOpenAnswer(t, n, "M", v) =>
                         (res'.status = 404 /\ submissions' = submissions)]_vars

\* a teacher graded a text that is the text of a multiple-choice question, for a
\* student with a submission, and was answered that there is no such question
C18_Witness ==
    /\ res.op = "markOpenAnswer"
    /\ res.status = 404
    /\ res.error = "Question not found."
    /\ submissions # <<>>
    /\ sessions # <<>>

(* C19: in the variant with sessionStatus, a sessionStatus and a getQuestions handled
   at the same instant, one right after the other in either order, agree:
   testStarted = true exactly when getQuestions succeeds, then with the same
   remainingTimeMs = endTime - now, and testStarted = false with remainingTimeMs = 0
   exactly when getQuestions answers 403. *)
C19_StatusAgreesWithGate ==
    [][/\ (res.op = "sessionStatus" /\ res.now = clock /\ getQuestions) =>
            /\ res.testStarted <=> res'.status = 200
            /\ res'.status = 200 =>
                   /\ res'.remainingTimeMs = res.remainingTimeMs
                   /\ res'.remainingTimeMs = sessions[Len(sessions)].endTime - clock
            /\ res'.status # 200 =>
                   (res'.status = 403 /\ ~res.testStarted /\ res.remainingTimeMs = 0)
       /\ (res.op = "getQuestions" /\ res.now = clock /\ sessionStatus) =>
            /\ res'.testStarted <=> res.status = 200
            /\ res.status = 200 =>
                   /\ res'.remainingTimeMs = res.remainingTimeMs
                   /\ res'.remainingTimeMs = sessions[Len(sessions)].endTime - clock
            /\ res.status # 200 =>
                   (res.status = 403 /\ ~res'.testStarted /\ res'.remainingTimeMs = 0)
      ]_vars

\* the clock was set back before the start of the last session: the status says the
\* test has not started
C19_Witness ==
    /\ variant = "server"
    /\ res.op = "sessionStatus"
    /\ sessions # <<>>
    /\ res.now < sessions[Len(sessions)].startTime
    /\ ~res.testStarted
    /\ res.remainingTimeMs = 0

\* the stored submissions of a token
C20_RecordsOf(token) == {i \in DOMAIN submissions : submissions[i].token = token}

(* C20: a submission is permanent (no store failures): once a token has a submission
   it has one in every later state, checkSubmitted answers submitted = true for it,
   getResults succeeds with the score and totalMCQs the record has now, and every
   further submit for it fails and stores nothing; for the token of a student without
   a submission checkSubmitted answers false and getResults 404. *)
C20_SubmissionPermanent ==
    /\ [](\A t \in TokenInputs \ {NoToken} :
            IF C20_RecordsOf(t) # {}
            THEN /\ variant = "server" => checkOutcome(t).submitted
                 /\ resultsOutcome(t).status = 200
                 /\ \A i \in C20_RecordsOf(t) :
                        /\ resultsOutcome(t).score = submissions[i].score
                        /\ resultsOutcome(t).totalMCQs = submissions[i].totalMCQs
            ELSE /\ variant = "server" => ~checkOutcome(t).submitted
                 /\ RoleOfToken(t) = "student" => resultsOutcome(t).status = 404)
    /\ []((res.op = "checkSubmitted" /\ res.status = 200) =>
             (res.submitted <=> C20_RecordsOf(res.token) # {}))
    /\ []((res.op = "getResults" /\ res.status \in {200, 404}) =>
             (res.status = 200 <=> C20_RecordsOf(res.token) # {}))
    /\ [][\A t \in TokenInputs :
             C20_RecordsOf(t) # {} =>
                 /\ \E i \in DOMAIN submissions' : submissions'[i].token = t
                 /\ \A a \in AnswerInputs :
                        submit(t, TRUE, a) =>
                            (res'.status # 200 /\ submissions' = submissions)]_vars

\* the results of a student whose open answer was graded correct after the
\* submission: the score returned is the one stored now
C20_Witness ==
    /\ res.op = "getResults"
    /\ res.status = 200
    /\ res.score = 2
    /\ \E i \in C20_RecordsOf(res.token) :
           /\ submissions[i].score = 2
           /\ gradeSubmission(questions, submissions[i].answers).score = 1

\* two names that differ at most in the case of their letters
C21_SameLetters(s, t) ==
    /\ Len(s) = Len(t)
    /\ \A i \in DOMAIN s :
           \/ s[i] = t[i]
           \/ {s[i], t[i]} \in {{"a", "A"}, {"b", "B"}, {"c", "C"}, {"x", "X"}}

(* C21: no two user records have the same first and last name up to case, and no two
   have the same id; a user record, once written, is never changed or removed; every
   submission's token is the id of a user record with role student, and a submit with
   the token of a teacher is answered 403 and stores nothing. *)
C21_UsersUniqueAndStable ==
    /\ [](\A i, j \in DOMAIN users :
              (\/ users[i].id = users[j].id
               \/ /\ C21_SameLetters(users[i].firstName, users[j].firstName)
                  /\ C21_SameLetters(users[i].lastName, users[j].lastName))
              => i = j)
    /\ [](\A k \in DOMAIN submissions :
              \E i \in DOMAIN users :
                  users[i].id = submissions[k].token /\ users[i].role = "student")
    /\ [][/\ Len(users') >= Len(users)
          /\ SubSeq(users', 1, Len(users)) = users
          /\ \A t \in TokenInputs :
                 (RoleOfToken(t) = "teacher" /\ submit(t, TRUE, <<>>)) =>
                     (res'.status = 403 /\ submissions' = submissions)]_vars

\* a teacher and two students have records, a student has submitted, and a person
\* signed in again in another spelling and got the stored record
C21_Witness ==
    /\ Len(users) = 3
    /\ \E i \in DOMAIN users : users[i].role = "teacher"
    /\ submissions # <<>>
    /\ res.op = "signin"
    /\ res.status = 200
    /\ \E i \in DOMAIN users :
           /\ users[i].id = res.token
           /\ users[i].firstName # res.req.firstName

====
